---- MODULE Spec2Model ----
(***************************************************************************)
(* Model of scripts/connect_graph.py: the repair of disconnected enhanced  *)
(* dependency graphs.  One run of _read over an input file is a state      *)
(* machine: the position in the loop body is pc, the locals of _read are   *)
(* the variables.  A file is the sequence of its lines, a line the sequence *)
(* of its tab-separated fields (<<>> is the empty line); a token is a      *)
(* record over FIELDS.  A deps field is the sequence of its "|"-separated  *)
(* entries, an entry the sequence of its ":"-separated parts               *)
(* (<<"3","dep">> is "3:dep", <<"_">> is "_").                             *)
(***************************************************************************)
EXTENDS Integers, Sequences, FiniteSets, TLC

\* Lines in one input file that are not empty, over all its sentences.
MaxLines == 3

FIELDS == <<"id", "form", "lemma", "upos", "xpos", "feats", "head", "deprel",
            "deps", "misc">>

\* The value of a Python local that has not been assigned yet.
Unbound == "<unbound>"

ROOT == "0"

root_edge == <<"0", "root">>

----------------------------------------------------------------------------
(* Sequences. *)

Range(s) == {s[i] : i \in 1..Len(s)}

In(x, s) == \E i \in 1..Len(s) : s[i] = x

\* del s[i], 1-based.
Del(s, i) == [j \in 1..(Len(s) - 1) |-> IF j < i THEN s[j] ELSE s[j + 1]]

----------------------------------------------------------------------------
(* The input file: sentence blocks, each followed by an empty line.  Words   *)
(* are numbered 1, 2, ... within their sentence; a multi-word-token line    *)
(* carries a range id and "_" in deps; a comment line is its text.          *)

IdStr(k) == ToString(k)

MwtId(k, j) == IdStr(k) \o "-" \o IdStr(k + j)

MwtIds == {MwtId(k, j) : k \in 1..(MaxLines + 1), j \in 1..(MaxLines + 1)}

\* `"-" in x` (clean_ids): of the ids of the model, the range ids hold a hyphen.
HasHyphen(x) == x \in MwtIds

\* The heads a word of a sentence with n words may name: ROOT, a word, the
\* placeholder, or the id one past the last word, which names no token.
HeadValues(n) == {ROOT, "_"} \cup {IdStr(k) : k \in 1..(n + 1)}

Entry(h) == IF h = "_" THEN <<"_">> ELSE <<h, "dep">>

Comment == "# text"

\* `line.strip().startswith("#")` (parse_sentence): of the lines of the model,
\* the comment lines start with "#".
IsComment(line) == line[1] = Comment

\* The layout of a file: per line, whether it is a word ("w"), a multi-word
\* token ("m") or a comment ("c"), and whether it opens a new sentence block.
\* At most one line of a file is a comment.
Layouts ==
    {l \in UNION {[1..len -> {"w", "m", "c"} \X BOOLEAN] : len \in 1..MaxLines} :
        /\ l[1][2]
        /\ Cardinality({i \in 1..Len(l) : l[i][1] = "c"}) <= 1}

Kind(l, i) == l[i][1]

HasComment(l) == \E i \in 1..Len(l) : Kind(l, i) = "c"

\* First and last line of the sentence of line i.
RECURSIVE FirstLine(_, _)
FirstLine(l, i) == IF l[i][2] THEN i ELSE FirstLine(l, i - 1)

RECURSIVE LastLine(_, _)
LastLine(l, i) == IF i = Len(l) \/ l[i + 1][2] THEN i ELSE LastLine(l, i + 1)

WordsIn(l, a, b) == Cardinality({j \in a..b : Kind(l, j) = "w"})

\* Words of the sentence of line i.
NWords(l, i) == WordsIn(l, FirstLine(l, i), LastLine(l, i))

\* Multi-word-token lines right before line i in its sentence, comment lines
\* apart.
RECURSIVE MwtRun(_, _)
MwtRun(l, i) ==
    IF i = FirstLine(l, i) \/ Kind(l, i - 1) = "w" THEN 0
    ELSE IF Kind(l, i - 1) = "c" THEN MwtRun(l, i - 1)
    ELSE 1 + MwtRun(l, i - 1)

LineId(l, i) ==
    LET k == WordsIn(l, FirstLine(l, i), i)
    IN  IF Kind(l, i) = "w" THEN IdStr(k) ELSE MwtId(k + 1, 1 + MwtRun(l, i))

AllHeads == HeadValues(MaxLines)

\* The first deps entry of every line.
FirstHeads(l) ==
    {f \in [1..Len(l) -> AllHeads] :
        \A i \in 1..Len(l) :
            IF Kind(l, i) = "w" THEN f[i] \in HeadValues(NWords(l, i)) ELSE f[i] = "_"}

\* At most one word of a file carries a second deps entry: <<line, head>>.
NoExtra == <<0, "_">>

SecondHeads(l) ==
    {NoExtra} \cup
    {<<i, h>> : i \in {j \in 1..Len(l) : Kind(l, j) = "w"}, h \in AllHeads}

\* Line i of the file, as its tab-separated fields.
LineToken(l, f, x, i) ==
    IF Kind(l, i) = "c" THEN <<Comment>>
    ELSE <<LineId(l, i), "form" \o IdStr(i), "lemma" \o IdStr(i), "UPOS", "XPOS",
           "Feat=Yes", "0", "deprel",
           IF x[1] = i THEN <<Entry(f[i]), Entry(x[2])>> ELSE <<Entry(f[i])>>,
           "misc">>

\* The lines of the file: an empty line closes every block.
RECURSIVE MakeLines(_, _, _, _)
MakeLines(l, f, x, i) ==
    IF i > Len(l) THEN <<>>
    ELSE <<LineToken(l, f, x, i)>>
         \o (IF i = LastLine(l, i) THEN <<<<>>>> ELSE <<>>)
         \o MakeLines(l, f, x, i + 1)

MakeFile(l, f, x) == MakeLines(l, f, x, 1)

SecondHeadsOk(l) ==
    {y \in SecondHeads(l) : y = NoExtra \/ y[2] \in HeadValues(NWords(l, y[1]))}

----------------------------------------------------------------------------
(* Reading and writing.  The text of a file is the sequence of its          *)
(* characters with every line that is not empty taken as one character:     *)
(* <<>> stands for "\n", a line for its content.                            *)

NL == <<>>

RECURSIVE Chars(_)
Chars(lines) ==
    IF lines = <<>> THEN <<>>
    ELSE (IF lines[1] = <<>> THEN <<NL>> ELSE <<lines[1], NL>>) \o Chars(Tail(lines))

\* text.split("\n\n"): the separators are found from left to right.
RECURSIVE SplitBlocks(_, _)
SplitBlocks(chars, current) ==
    IF chars = <<>> THEN <<current>>
    ELSE IF Len(chars) >= 2 /\ chars[1] = NL /\ chars[2] = NL
         THEN <<current>> \o SplitBlocks(SubSeq(chars, 3, Len(chars)), <<>>)
         ELSE SplitBlocks(Tail(chars), Append(current, chars[1]))

\* The place of every field in a line.
FieldIndex == [k \in Range(FIELDS) |-> CHOOSE i \in 1..Len(FIELDS) : FIELDS[i] = k]

\* {k: v for k, v in zip(FIELDS, line)}
Zip(line) ==
    [k \in {FIELDS[i] : i \in 1..Len(FIELDS) \cap 1..Len(line)} |-> line[FieldIndex[k]]]

\* The lines of the blob that are not empty, as tokens.
parse_sentence_all(sentence_blob) ==
    LET lines == SelectSeq(sentence_blob, LAMBDA line : line # NL)
    IN  [i \in 1..Len(lines) |-> Zip(lines[i])]

\* The lines of the blob that are neither empty nor comments, as tokens.
parse_sentence(sentence_blob) ==
    LET lines == SelectSeq(sentence_blob, LAMBDA line : line # NL /\ ~IsComment(line))
    IN  [i \in 1..Len(lines) |-> Zip(lines[i])]

\* The sentences lazy_parse yields, in order.
lazy_parse(lines) ==
    LET blobs == SelectSeq(SplitBlocks(Chars(lines), <<>>), LAMBDA blob : blob # <<>>)
    IN  [i \in 1..Len(blobs) |-> parse_sentence(blobs[i])]

\* The sentences decoded from the last to the first.
decode_last_first(annotations) ==
    [s \in 1..Len(annotations) |->
        [r \in 1..Len(annotations[Len(annotations) + 1 - s]) |->
            [k \in 1..Len(FIELDS) |->
                annotations[Len(annotations) + 1 - s][r][FIELDS[k]]]]]

decode_conllu_output(annotations) ==
    [s \in 1..Len(annotations) |->
        [r \in 1..Len(annotations[s]) |->
            [k \in 1..Len(FIELDS) |-> annotations[s][r][FIELDS[k]]]]]

\* The lines of every sentence, an empty line after each.
RECURSIVE write_conllu_output(_)
write_conllu_output(decoded) ==
    IF decoded = <<>> THEN <<>>
    ELSE decoded[1] \o <<<<>>>> \o write_conllu_output(Tail(decoded))

----------------------------------------------------------------------------
(* Python dicts keep insertion order: a dict is the sequence of its items.  *)

Item(k, v) == [k |-> k, v |-> v]

Keys(d) == [i \in 1..Len(d) |-> d[i].k]

HasKey(d, k) == \E i \in 1..Len(d) : d[i].k = k

Get(d, k) == d[CHOOSE i \in 1..Len(d) : d[i].k = k].v

\* d[k] = v: a present key keeps its place.
Put(d, k, v) ==
    IF HasKey(d, k)
    THEN [i \in 1..Len(d) |-> IF d[i].k = k THEN Item(k, v) ELSE d[i]]
    ELSE Append(d, Item(k, v))

\* The (key, element) pairs of a dict of lists, in the order of the nested
\* loops `for k, vs in d.items(): for v in vs`.
RECURSIVE Pairs(_)
Pairs(d) ==
    IF d = <<>> THEN <<>>
    ELSE [i \in 1..Len(d[1].v) |-> <<d[1].k, d[1].v[i]>>] \o Pairs(Tail(d))

----------------------------------------------------------------------------
(* Head-set extraction. *)

\* The head of one entry: split(":")[0].
EntryHead(entry) == entry[1]

convert_deps_to_nested_list(deps) ==
    [t \in 1..Len(deps) |-> [e \in 1..Len(deps[t]) |-> EntryHead(deps[t][e])]]

\* `for i, x in enumerate(inputs): if "-" in x: del inputs[i]`: the list
\* shrinks under the iterator, which then steps over the element that moved
\* into place i.
RECURSIVE clean_ids_from(_, _)
clean_ids_from(inputs, i) ==
    IF i > Len(inputs) THEN inputs
    ELSE IF HasHyphen(inputs[i]) THEN clean_ids_from(Del(inputs, i), i + 1)
    ELSE clean_ids_from(inputs, i + 1)

clean_ids(inputs) == clean_ids_from(inputs, 1)

\* `del inputs[i]` done n times in a row; the list index may run out of range.
RECURSIVE DelTimes(_, _, _)
DelTimes(inputs, i, n) ==
    IF n = 0 THEN [err |-> "", val |-> inputs]
    ELSE IF i > Len(inputs) THEN [err |-> "IndexError", val |-> inputs]
    ELSE DelTimes(Del(inputs, i), i, n - 1)

CountOf(x, s) == Cardinality({j \in 1..Len(s) : s[j] = x})

\* `for i, x_list in enumerate(inputs): for x in x_list: if x == "_": del
\* inputs[i]`: one deletion at place i for every placeholder of x_list.
RECURSIVE clean_eheads_from(_, _)
clean_eheads_from(inputs, i) ==
    IF i > Len(inputs) THEN [err |-> "", val |-> inputs]
    ELSE LET r == DelTimes(inputs, i, CountOf("_", inputs[i]))
         IN  IF r.err # "" THEN r ELSE clean_eheads_from(r.val, i + 1)

clean_eheads(inputs) == clean_eheads_from(inputs, 1)

\* The assertion written as `len(ids) >= len(enhanced_heads)`.
StructuralCheckAtLeast(the_ids, the_heads) == Len(the_ids) >= Len(the_heads)

\* `assert len(ids) == len(enhanced_heads)`
StructuralCheck(the_ids, the_heads) == Len(the_ids) = Len(the_heads)

\* `{conllu_id: [] for conllu_id in ids}`
RECURSIVE EmptyLists(_)
EmptyLists(the_ids) ==
    IF the_ids = <<>> THEN <<>>
    ELSE Put(EmptyLists(SubSeq(the_ids, 1, Len(the_ids) - 1)),
             the_ids[Len(the_ids)], <<>>)

\* `for conllu_id, head_list in zip(ids, enhanced_heads): ...append(head)`
RECURSIVE FillHeads(_, _, _, _)
FillHeads(d, the_ids, the_heads, i) ==
    IF i > Len(the_ids) \/ i > Len(the_heads) THEN d
    ELSE FillHeads(Put(d, the_ids[i], Get(d, the_ids[i]) \o the_heads[i]),
                   the_ids, the_heads, i + 1)

BuildIdsToHeads(the_ids, the_heads) ==
    FillHeads(EmptyLists(the_ids), the_ids, the_heads, 1)

----------------------------------------------------------------------------
(* Reachability from ROOT. *)

\* 1) find root, the list holding the last root only.
RECURSIVE FindRootLastOnly(_, _, _)
FindRootLastOnly(pairs, root, nodes) ==
    IF pairs = <<>> THEN [root_index |-> root, nodes |-> nodes]
    ELSE IF pairs[1][2] = ROOT
         THEN FindRootLastOnly(Tail(pairs), pairs[1][1], <<pairs[1][1]>>)
         ELSE FindRootLastOnly(Tail(pairs), root, nodes)

\* 1) find root, root_index staying at the first root found.
RECURSIVE FindRootKeepFirst(_, _, _)
FindRootKeepFirst(pairs, root, nodes) ==
    IF pairs = <<>> THEN [root_index |-> root, nodes |-> nodes]
    ELSE IF pairs[1][2] = ROOT
         THEN [root_index |-> pairs[1][1],
               nodes |-> FindRootKeepFirst(Tail(pairs), pairs[1][1],
                                           Append(nodes, pairs[1][1])).nodes]
         ELSE FindRootKeepFirst(Tail(pairs), root, nodes)

\* 1) find root: every token with a head "0" is appended, the last one found
\* stays in root_index; root_index keeps its old value when there is none.
RECURSIVE FindRoot(_, _, _)
FindRoot(pairs, root, nodes) ==
    IF pairs = <<>> THEN [root_index |-> root, nodes |-> nodes]
    ELSE IF pairs[1][2] = ROOT
         THEN FindRoot(Tail(pairs), pairs[1][1], Append(nodes, pairs[1][1]))
         ELSE FindRoot(Tail(pairs), root, nodes)

\* 2) find root's immediate children.
RECURSIVE FindRootChildren(_, _, _)
FindRootChildren(pairs, root, nodes) ==
    IF pairs = <<>> THEN nodes
    ELSE FindRootChildren(Tail(pairs), root,
             IF pairs[1][2] = root THEN Append(nodes, pairs[1][1]) ELSE nodes)

\* The loop without the test `token_id not in nodes_reachable_from_root`.
RECURSIVE SweepAppendAlways(_, _)
SweepAppendAlways(pairs, nodes) ==
    IF pairs = <<>> THEN nodes
    ELSE SweepAppendAlways(Tail(pairs),
               IF In(pairs[1][2], nodes)
               THEN Append(nodes, pairs[1][1]) ELSE nodes)

\* The loop of traverse_root_children: the list grows while it is scanned.
RECURSIVE Sweep(_, _)
Sweep(pairs, nodes) ==
    IF pairs = <<>> THEN nodes
    ELSE Sweep(Tail(pairs),
               IF In(pairs[1][2], nodes) /\ ~In(pairs[1][1], nodes)
               THEN Append(nodes, pairs[1][1]) ELSE nodes)

\* The sweep with `for head in heads` cut down to the first head of a token.
traverse_first_heads(the_ids_to_heads, nodes, keep) ==
    LET firsts == [i \in 1..Len(the_ids_to_heads) |->
                      Item(the_ids_to_heads[i].k,
                           SubSeq(the_ids_to_heads[i].v, 1, 1))]
        after == Sweep(Pairs(firsts), nodes)
    IN  [nodes |-> after,
         keep  |-> IF Len(nodes) = Len(after) THEN FALSE ELSE keep]

\* The sweep that clears the flag whatever it added.
traverse_stop_at_once(the_ids_to_heads, nodes, keep) ==
    [nodes |-> Sweep(Pairs(the_ids_to_heads), nodes), keep |-> FALSE]

traverse_root_children(the_ids_to_heads, nodes, keep) ==
    LET after == Sweep(Pairs(the_ids_to_heads), nodes)
    IN  [nodes |-> after,
         keep  |-> IF Len(nodes) = Len(after) THEN FALSE ELSE keep]

----------------------------------------------------------------------------
(* Fragments of unreachable tokens. *)

\* 3) find remaining tokens, a head that is no key of the head-map left out.
FindUnreachableKnownHeads(pairs, nodes) ==
    LET kept == SelectSeq(pairs, LAMBDA p :
                    /\ p[2] # ROOT
                    /\ ~In(p[2], nodes)
                    /\ \E q \in Range(pairs) : q[1] = p[2])
    IN  [i \in 1..Len(kept) |-> kept[i][1]]

\* 3) find remaining tokens: one entry per head that is neither "0" nor
\* reachable.
RECURSIVE FindUnreachable(_, _)
FindUnreachable(pairs, nodes) ==
    IF pairs = <<>> THEN <<>>
    ELSE (IF pairs[1][2] # ROOT /\ ~In(pairs[1][2], nodes)
          THEN <<pairs[1][1]>> ELSE <<>>) \o FindUnreachable(Tail(pairs), nodes)

\* The (unreachable node, head) pairs of the two loops of step 4: every head
\* of every entry of unreachable_nodes.
RECURSIVE NodeHeadPairs(_, _)
NodeHeadPairs(nodes, the_ids_to_heads) ==
    IF nodes = <<>> THEN <<>>
    ELSE [i \in 1..Len(Get(the_ids_to_heads, nodes[1])) |->
             <<nodes[1], Get(the_ids_to_heads, nodes[1])[i]>>]
         \o NodeHeadPairs(Tail(nodes), the_ids_to_heads)

\* First loop, stopping before the last head.
RECURSIVE FragmentKeysButLast(_, _)
FragmentKeysButLast(nhs, d) ==
    IF Len(nhs) <= 1 THEN d
    ELSE FragmentKeysButLast(Tail(nhs), Put(d, nhs[1][2], <<>>))

\* First loop: a key with an empty list for every head.
RECURSIVE FragmentKeys(_, _)
FragmentKeys(nhs, d) ==
    IF nhs = <<>> THEN d ELSE FragmentKeys(Tail(nhs), Put(d, nhs[1][2], <<>>))

\* Second loop: the node is appended under each of its heads; a head that is
\* no key raises ValueError.
RECURSIVE FragmentChildren(_, _)
FragmentChildren(nhs, d) ==
    IF nhs = <<>> THEN [err |-> "", val |-> d]
    ELSE IF HasKey(d, nhs[1][2])
         THEN FragmentChildren(Tail(nhs),
                  Put(d, nhs[1][2], Append(Get(d, nhs[1][2]), nhs[1][1])))
         ELSE [err |-> "ValueError", val |-> d]

BuildFragments(unreachable, the_ids_to_heads) ==
    LET nhs == NodeHeadPairs(unreachable, the_ids_to_heads)
    IN  FragmentChildren(nhs, FragmentKeys(nhs, <<>>))

\* The places of x in the children lists of the fragments.
ParentsPerChild(x, fragments) ==
    {jc \in (1..Len(fragments)) \X (1..Len(Pairs(fragments))) :
        /\ jc[2] <= Len(fragments[jc[1]].v)
        /\ fragments[jc[1]].v[jc[2]] = x}

\* Fragments whose children list holds x.
Parents(x, fragments) == {j \in 1..Len(fragments) : In(x, fragments[j].v)}

\* 5) `for i, head_of_fragment in enumerate(heads_of_fragments)`: one
\* `del heads_of_fragments[i]` for every fragment that lists the head as a
\* child, on the list being iterated.
RECURSIVE PruneFrom(_, _, _)
PruneFrom(heads, i, fragments) ==
    IF i > Len(heads) THEN [err |-> "", val |-> heads]
    ELSE LET r == DelTimes(heads, i, Cardinality(Parents(heads[i], fragments)))
         IN  IF r.err # "" THEN r ELSE PruneFrom(r.val, i + 1, fragments)

PruneHeads(fragments) == PruneFrom(Keys(fragments), 1, fragments)

\* populate the pruned tree
RECURSIVE PopulatePruned(_, _)
PopulatePruned(heads, fragments) ==
    IF heads = <<>> THEN <<>>
    ELSE LET rest == PopulatePruned(SubSeq(heads, 1, Len(heads) - 1), fragments)
             h == heads[Len(heads)]
         IN  IF HasKey(fragments, h) THEN Put(rest, h, Get(fragments, h)) ELSE rest

----------------------------------------------------------------------------
(* Reattachment. *)

\* deps_object + "|" + root_edge
AppendRootEdge(deps) == Append(deps, root_edge)

\* n root edges after deps.
RECURSIVE AppendRootEdges(_, _)
AppendRootEdges(deps, n) ==
    IF n = 0 THEN deps ELSE AppendRootEdges(AppendRootEdge(deps), n - 1)

\* One root edge for every child of the fragment of the token.
ReattachPerChild(sentence, pruned) ==
    [i \in 1..Len(sentence) |->
        IF HasKey(pruned, sentence[i].id)
        THEN [sentence[i] EXCEPT
                 !.deps = AppendRootEdges(sentence[i].deps,
                                          Len(Get(pruned, sentence[i].id)))]
        ELSE sentence[i]]

\* The edge given to the members of the pruned fragments, not to their heads.
ReattachMembers(sentence, pruned) ==
    [i \in 1..Len(sentence) |->
        IF \E k \in 1..Len(pruned) : In(sentence[i].id, pruned[k].v)
        THEN [sentence[i] EXCEPT !.deps = AppendRootEdge(sentence[i].deps)]
        ELSE sentence[i]]

Reattach(sentence, pruned) ==
    [i \in 1..Len(sentence) |->
        IF HasKey(pruned, sentence[i].id)
        THEN [sentence[i] EXCEPT !.deps = AppendRootEdge(sentence[i].deps)]
        ELSE sentence[i]]

----------------------------------------------------------------------------
(* The loop body of _read as a function of one sentence. *)

\* Lines 164-168: the while loop.
RECURSIVE SweepLoop(_, _, _)
SweepLoop(the_ids_to_heads, nodes, keep) ==
    IF ~keep THEN nodes
    ELSE LET r == traverse_root_children(the_ids_to_heads, nodes, keep)
         IN  SweepLoop(the_ids_to_heads, r.nodes, r.keep)

Failed(e, sentence) == [err |-> e, sentence |-> sentence]

\* Lines 126-245 for one sentence, entered with root_index holding root.
ProcessSentence(sentence, root) ==
    LET full_ids == [i \in 1..Len(sentence) |-> sentence[i].id]
        deps == [i \in 1..Len(sentence) |-> sentence[i].deps]
        the_ids == clean_ids(full_ids)
        cleaned == clean_eheads(convert_deps_to_nested_list(deps))
        head_map == BuildIdsToHeads(the_ids, cleaned.val)
        pairs == Pairs(head_map)
        found == FindRoot(pairs, root, <<>>)
        nodes == SweepLoop(head_map,
                           FindRootChildren(pairs, found.root_index, found.nodes),
                           TRUE)
        built == BuildFragments(FindUnreachable(pairs, nodes), head_map)
        pruned == PruneHeads(built.val)
    IN  IF cleaned.err # "" THEN Failed(cleaned.err, sentence)
        ELSE IF ~StructuralCheck(the_ids, cleaned.val)
             THEN Failed("AssertionError", sentence)
        ELSE IF pairs # <<>> /\ found.root_index = Unbound
             THEN Failed("UnboundLocalError", sentence)
        ELSE IF built.err # "" THEN Failed(built.err, sentence)
        ELSE IF pruned.err # "" THEN Failed(pruned.err, sentence)
        ELSE [err |-> "",
              sentence |-> Reattach(sentence, PopulatePruned(pruned.val, built.val))]

----------------------------------------------------------------------------
(* One run of the script: _read over the sentences of the input file, then  *)
(* decode_conllu_output and write_conllu_output.                            *)

VARIABLES
    text,                           \* the lines of the input file
    run,                            \* 1: the run on text; 2: a run on its output
    sent,                           \* sentences lazy_parse has yielded
    annotated_sentence,
    ids,
    enhanced_heads,
    ids_to_heads,
    root_index,
    nodes_reachable_from_root,
    keep_searching_for_dependents,
    unreachable_nodes,
    unreachable_head_fragments,
    heads_of_fragments,
    pruned_tree,
    conllu_annotations,
    out_file,                       \* the lines of the output file
    sweeps,                         \* calls of traverse_root_children for the sentence
    pc,                             \* the place in _read / __main__
    error                           \* the exception that ended the run, or ""

locals == <<annotated_sentence, ids, enhanced_heads, ids_to_heads, root_index,
            nodes_reachable_from_root, keep_searching_for_dependents,
            unreachable_nodes, unreachable_head_fragments, heads_of_fragments,
            pruned_tree>>

vars == <<text, run, sent, locals, sweeps, conllu_annotations, out_file, pc, error>>

\* The sentences the loop of _read goes through.
Sentences == lazy_parse(text)

\* The locals of a fresh call of _read.
FreshLocals ==
    /\ annotated_sentence = <<>>
    /\ ids = <<>>
    /\ enhanced_heads = <<>>
    /\ ids_to_heads = <<>>
    /\ root_index = Unbound
    /\ nodes_reachable_from_root = <<>>
    /\ keep_searching_for_dependents = FALSE
    /\ unreachable_nodes = <<>>
    /\ unreachable_head_fragments = <<>>
    /\ heads_of_fragments = <<>>
    /\ pruned_tree = <<>>

\* The state before the first sentence of a file of one of the layouts.
InitFrom(layouts) ==
    /\ \E l \in layouts : \E f \in FirstHeads(l) : \E x \in SecondHeadsOk(l) :
           text = MakeFile(l, f, x)
    /\ run = 1
    /\ sent = 0
    /\ FreshLocals
    /\ sweeps = 0
    /\ conllu_annotations = <<>>
    /\ out_file = <<>>
    /\ pc = "next"
    /\ error = ""

\* A file of token lines.
Init == InitFrom({l \in Layouts : ~HasComment(l)})

\* A file with a comment line.
InitCommented == InitFrom({l \in Layouts : HasComment(l)})

Raise(e) == pc' = "error" /\ error' = e

\* Lines 124-134: the next sentence, its ids and its enhanced heads.
Extract ==
    /\ pc = "next"
    /\ \E sentences \in {Sentences} :
          /\ sent < Len(sentences)
          /\ \E sentence \in {sentences[sent + 1]} :
                LET full_ids == [i \in 1..Len(sentence) |-> sentence[i].id]
                    deps == [i \in 1..Len(sentence) |-> sentence[i].deps]
                    cleaned == clean_eheads(convert_deps_to_nested_list(deps))
                IN  /\ annotated_sentence' = sentence
                    /\ ids' = clean_ids(full_ids)
                    /\ IF cleaned.err # ""
                       THEN Raise(cleaned.err) /\ UNCHANGED enhanced_heads
                       ELSE /\ pc' = "assert"
                            /\ enhanced_heads' = cleaned.val
                            /\ UNCHANGED error
    /\ sent' = sent + 1
    /\ UNCHANGED <<sweeps, text, run, ids_to_heads, root_index, nodes_reachable_from_root,
                   keep_searching_for_dependents, unreachable_nodes,
                   unreachable_head_fragments, heads_of_fragments, pruned_tree,
                   conllu_annotations, out_file>>

\* Lines 136-143: the assertion, then the head-map.
BuildHeadMap ==
    /\ pc = "assert"
    /\ IF StructuralCheck(ids, enhanced_heads)
       THEN /\ ids_to_heads' = BuildIdsToHeads(ids, enhanced_heads)
            /\ pc' = "find_root"
            /\ UNCHANGED error
       ELSE Raise("AssertionError") /\ UNCHANGED ids_to_heads
    /\ UNCHANGED <<sweeps, text, run, sent, annotated_sentence, ids, enhanced_heads,
                   root_index, nodes_reachable_from_root,
                   keep_searching_for_dependents, unreachable_nodes,
                   unreachable_head_fragments, heads_of_fragments, pruned_tree,
                   conllu_annotations, out_file>>

\* Lines 147-163: the two passes over the head-map.  The second pass reads
\* root_index at its first comparison: an unassigned local raises there.
SeedReachable ==
    /\ pc = "find_root"
    /\ LET pairs == Pairs(ids_to_heads)
           found == FindRoot(pairs, root_index, <<>>)
       IN  /\ root_index' = found.root_index
           /\ IF pairs # <<>> /\ found.root_index = Unbound
              THEN /\ Raise("UnboundLocalError")
                   /\ nodes_reachable_from_root' = found.nodes
                   /\ UNCHANGED keep_searching_for_dependents
              ELSE /\ nodes_reachable_from_root' =
                          FindRootChildren(pairs, found.root_index, found.nodes)
                   /\ keep_searching_for_dependents' = TRUE
                   /\ pc' = "sweep"
                   /\ UNCHANGED error
    /\ sweeps' = 0
    /\ UNCHANGED <<text, run, sent, annotated_sentence, ids, enhanced_heads,
                   ids_to_heads, unreachable_nodes, unreachable_head_fragments,
                   heads_of_fragments, pruned_tree, conllu_annotations, out_file>>

\* Lines 164-168: one iteration of the while loop.
TraverseStep ==
    /\ pc = "sweep"
    /\ keep_searching_for_dependents
    /\ LET r == traverse_root_children(ids_to_heads, nodes_reachable_from_root,
                                       keep_searching_for_dependents)
       IN  /\ nodes_reachable_from_root' = r.nodes
           /\ keep_searching_for_dependents' = r.keep
    /\ sweeps' = sweeps + 1
    /\ UNCHANGED <<text, run, sent, annotated_sentence, ids, enhanced_heads,
                   ids_to_heads, root_index, unreachable_nodes,
                   unreachable_head_fragments, heads_of_fragments, pruned_tree,
                   conllu_annotations, out_file, pc, error>>

\* Lines 172-200: the unreachable tokens and their fragments.
FindFragments ==
    /\ pc = "sweep"
    /\ ~keep_searching_for_dependents
    /\ LET unreachable == FindUnreachable(Pairs(ids_to_heads),
                                          nodes_reachable_from_root)
           built == BuildFragments(unreachable, ids_to_heads)
       IN  /\ unreachable_nodes' = unreachable
           /\ unreachable_head_fragments' = built.val
           /\ IF built.err # "" THEN Raise(built.err)
                                ELSE pc' = "collapse" /\ UNCHANGED error
    /\ UNCHANGED <<sweeps, text, run, sent, annotated_sentence, ids, enhanced_heads,
                   ids_to_heads, root_index, nodes_reachable_from_root,
                   keep_searching_for_dependents, heads_of_fragments, pruned_tree,
                   conllu_annotations, out_file>>

\* Lines 209-232: the pruning of the fragment heads and the pruned tree.
Collapse ==
    /\ pc = "collapse"
    /\ LET pruned == PruneHeads(unreachable_head_fragments)
       IN  /\ heads_of_fragments' = pruned.val
           /\ IF pruned.err # ""
              THEN Raise(pruned.err) /\ pruned_tree' = <<>>
              ELSE /\ pruned_tree' =
                          PopulatePruned(pruned.val, unreachable_head_fragments)
                   /\ pc' = "reattach"
                   /\ UNCHANGED error
    /\ UNCHANGED <<sweeps, text, run, sent, annotated_sentence, ids, enhanced_heads,
                   ids_to_heads, root_index, nodes_reachable_from_root,
                   keep_searching_for_dependents, unreachable_nodes,
                   unreachable_head_fragments, conllu_annotations, out_file>>

\* Lines 236-245 with every sentence written as soon as it is repaired.
EmitAndWrite ==
    /\ pc = "reattach"
    /\ annotated_sentence' = Reattach(annotated_sentence, pruned_tree)
    /\ conllu_annotations' =
           Append(conllu_annotations, Reattach(annotated_sentence, pruned_tree))
    /\ out_file' = write_conllu_output(decode_conllu_output(conllu_annotations'))
    /\ pc' = "next"
    /\ UNCHANGED <<sweeps, text, run, sent, ids, enhanced_heads, ids_to_heads, root_index,
                   nodes_reachable_from_root, keep_searching_for_dependents,
                   unreachable_nodes, unreachable_head_fragments,
                   heads_of_fragments, pruned_tree, error>>

\* Lines 236-245: the root edges, and the sentence joins the result.
Emit ==
    /\ pc = "reattach"
    /\ annotated_sentence' = Reattach(annotated_sentence, pruned_tree)
    /\ conllu_annotations' =
           Append(conllu_annotations, Reattach(annotated_sentence, pruned_tree))
    /\ pc' = "next"
    /\ UNCHANGED <<sweeps, text, run, sent, ids, enhanced_heads, ids_to_heads, root_index,
                   nodes_reachable_from_root, keep_searching_for_dependents,
                   unreachable_nodes, unreachable_head_fragments,
                   heads_of_fragments, pruned_tree, out_file, error>>

\* Lines 247, 284-290: _read returns; the sentences are decoded and written.
WriteOutput ==
    /\ pc = "next"
    /\ sent = Len(Sentences)
    /\ out_file' = write_conllu_output(decode_conllu_output(conllu_annotations))
    /\ pc' = "done"
    /\ UNCHANGED <<sweeps, text, run, sent, locals, conllu_annotations, error>>

\* The script is run again, on the file it wrote.
RunOnOutput ==
    /\ pc = "done"
    /\ run = 1
    /\ run' = 2
    /\ text' = out_file
    /\ sent' = 0
    /\ annotated_sentence' = <<>>
    /\ ids' = <<>>
    /\ enhanced_heads' = <<>>
    /\ ids_to_heads' = <<>>
    /\ root_index' = Unbound
    /\ nodes_reachable_from_root' = <<>>
    /\ keep_searching_for_dependents' = FALSE
    /\ unreachable_nodes' = <<>>
    /\ unreachable_head_fragments' = <<>>
    /\ heads_of_fragments' = <<>>
    /\ pruned_tree' = <<>>
    /\ sweeps' = 0
    /\ conllu_annotations' = <<>>
    /\ out_file' = <<>>
    /\ pc' = "next"
    /\ UNCHANGED error

Next ==
    \/ Extract
    \/ BuildHeadMap
    \/ SeedReachable
    \/ TraverseStep
    \/ FindFragments
    \/ Collapse
    \/ Emit
    \/ WriteOutput
    \/ RunOnOutput

Spec == Init /\ [][Next]_vars

CommentSpec == InitCommented /\ [][Next]_vars

----------------------------------------------------------------------------
(* The same run with the loops over ids_to_heads taken in any order: the    *)
(* entries of the dict in any order, and the heads of an entry in any       *)
(* order, chosen anew for each of the two passes and for each sweep.        *)

\* The orders of a list.
RECURSIVE SeqOrders(_)
SeqOrders(v) ==
    IF v = <<>> THEN {<<>>}
    ELSE UNION {{<<v[i]>> \o r : r \in SeqOrders(Del(v, i))} : i \in 1..Len(v)}

\* The dict with the heads of each entry in some order.
RECURSIVE HeadOrders(_)
HeadOrders(d) ==
    IF d = <<>> THEN {<<>>}
    ELSE {<<Item(d[1].k, c)>> \o r : c \in SeqOrders(d[1].v), r \in HeadOrders(Tail(d))}

DictOrders(d) == UNION {SeqOrders(h) : h \in HeadOrders(d)}

\* Lines 150-155 in some order.
FindRootAnyOrder ==
    /\ pc = "find_root"
    /\ \E o \in DictOrders(ids_to_heads) :
          LET found == FindRoot(Pairs(o), root_index, <<>>)
          IN  /\ root_index' = found.root_index
              /\ nodes_reachable_from_root' = found.nodes
    /\ pc' = "root_children"
    /\ UNCHANGED <<sweeps, text, run, sent, annotated_sentence, ids, enhanced_heads,
                   ids_to_heads, keep_searching_for_dependents, unreachable_nodes,
                   unreachable_head_fragments, heads_of_fragments, pruned_tree,
                   conllu_annotations, out_file, error>>

\* Lines 157-163 in some order.
RootChildrenAnyOrder ==
    /\ pc = "root_children"
    /\ IF ids_to_heads # <<>> /\ root_index = Unbound
       THEN /\ Raise("UnboundLocalError")
            /\ UNCHANGED <<nodes_reachable_from_root, keep_searching_for_dependents>>
       ELSE /\ \E o \in DictOrders(ids_to_heads) :
                  nodes_reachable_from_root' =
                      FindRootChildren(Pairs(o), root_index, nodes_reachable_from_root)
            /\ keep_searching_for_dependents' = TRUE
            /\ pc' = "sweep"
            /\ UNCHANGED error
    /\ sweeps' = 0
    /\ UNCHANGED <<text, run, sent, annotated_sentence, ids, enhanced_heads,
                   ids_to_heads, root_index, unreachable_nodes,
                   unreachable_head_fragments, heads_of_fragments, pruned_tree,
                   conllu_annotations, out_file>>

\* Lines 164-168 with the loop of traverse_root_children in some order.
TraverseAnyOrder ==
    /\ pc = "sweep"
    /\ keep_searching_for_dependents
    /\ \E o \in DictOrders(ids_to_heads) :
          LET r == traverse_root_children(o, nodes_reachable_from_root,
                                          keep_searching_for_dependents)
          IN  /\ nodes_reachable_from_root' = r.nodes
              /\ keep_searching_for_dependents' = r.keep
    /\ sweeps' = sweeps + 1
    /\ UNCHANGED <<text, run, sent, annotated_sentence, ids, enhanced_heads,
                   ids_to_heads, root_index, unreachable_nodes,
                   unreachable_head_fragments, heads_of_fragments, pruned_tree,
                   conllu_annotations, out_file, pc, error>>

NextAnyOrder ==
    \/ Extract
    \/ BuildHeadMap
    \/ FindRootAnyOrder
    \/ RootChildrenAnyOrder
    \/ TraverseAnyOrder
    \/ FindFragments
    \/ Collapse
    \/ Emit
    \/ WriteOutput

AnyOrderSpec == Init /\ [][NextAnyOrder]_vars

----------------------------------------------------------------------------
(* What the claims speak of. *)

\* The tokens with a chain of head edges that ends at ROOT.
RECURSIVE Grow(_, _)
Grow(R, edges) ==
    LET more == R \cup {e[1] : e \in {x \in edges : x[2] \in R}}
    IN  IF more = R THEN R ELSE Grow(more, edges)

ChainToRoot(edges) == Grow({ROOT}, edges) \ {ROOT}

\* The head edges the deps fields of a sentence state.
DepsEdges(sentence) ==
    UNION {{<<sentence[i].id, EntryHead(sentence[i].deps[e])>> :
               e \in 1..Len(sentence[i].deps)} : i \in 1..Len(sentence)}

WordIds(sentence) ==
    {sentence[i].id : i \in {j \in 1..Len(sentence) : ~HasHyphen(sentence[j].id)}}

TokenIds(sentence) == {sentence[i].id : i \in 1..Len(sentence)}

\* The loop body has run to its end for sentence number sent.
Repaired == pc = "next" /\ sent >= 1

\* The sweep loop has stopped.
Stable == pc = "sweep" /\ ~keep_searching_for_dependents

ReachableSet == Range(nodes_reachable_from_root)

Original == Sentences[sent]

GotRootEdge(i) == annotated_sentence[i].deps = Append(Original[i].deps, root_edge)

\* C1: after the reattachment step every non-multi-word token id of the
\* sentence is reachable from "0" along the head edges of the mutated deps.
C1_PostRepairConnectivity ==
    Repaired =>
        WordIds(annotated_sentence) \subseteq ChainToRoot(DepsEdges(annotated_sentence))

\* C2: a second run on the output of a first run leaves every deps field as
\* the first run left it.
C2_Idempotence ==
    (run = 2 /\ Repaired) => annotated_sentence = Original

\* C3: a token of the final ReachableSet never has "|0:root" appended.
C3_NoSpuriousEdges ==
    Repaired =>
        \A i \in 1..Len(annotated_sentence) :
            annotated_sentence[i].id \in ReachableSet
                => annotated_sentence[i].deps = Original[i].deps

\* C4: after the collapse no key left in heads_of_fragments is a child in the
\* children list of any fragment.
C4_FragmentMinimality ==
    pc = "reattach" =>
        \A i \in 1..Len(heads_of_fragments) :
            Parents(heads_of_fragments[i], unreachable_head_fragments) = {}

\* C5: when the sweep loop stops, every token with a head in
\* nodes_reachable_from_root is in nodes_reachable_from_root.
C5_ReachabilityClosure ==
    Stable =>
        \A i \in 1..Len(ids_to_heads) :
            (\E j \in 1..Len(ids_to_heads[i].v) : ids_to_heads[i].v[j] \in ReachableSet)
                => ids_to_heads[i].k \in ReachableSet

\* A sweep added a token that neither has head "0" nor is a child of root_index,
\* through its second head.
C5_Witness ==
    /\ Stable
    /\ \E i \in 1..Len(ids_to_heads) :
          /\ ids_to_heads[i].k \in ReachableSet
          /\ Len(ids_to_heads[i].v) = 2
          /\ ids_to_heads[i].v[1] \notin ReachableSet \cup {ROOT}
          /\ ids_to_heads[i].v[2] \notin {ROOT, root_index}

\* C6: at the fixed point nodes_reachable_from_root is exactly the set of
\* tokens with a chain of head edges to "0" in the sentence's head-map.
C6_ExactReachability ==
    Stable => ReachableSet = ChainToRoot(Range(Pairs(ids_to_heads)))

\* C7: an unreachable token with a head that names no token of the sentence
\* has "|0:root" appended to its deps field.
C7_DanglingHeadReattached ==
    Repaired =>
        \A i \in 1..Len(annotated_sentence) :
            ( /\ HasKey(ids_to_heads, annotated_sentence[i].id)
              /\ annotated_sentence[i].id \notin ReachableSet
              /\ \E h \in Range(Get(ids_to_heads, annotated_sentence[i].id)) :
                    h \notin TokenIds(annotated_sentence) \cup {ROOT, "_"} )
            => GotRootEdge(i)

SameButDeps(a, b) == \A k \in Range(FIELDS) \ {"deps"} : a[k] = b[k]

\* C8: processing a sentence keeps the number and order of the tokens, their
\* ids and their other fields; a deps field changes only for a token whose id
\* is a key of pruned_tree, and only in the reattachment step.
C8_Frame ==
    \A sentences \in {Sentences} :
        /\ \A k \in 1..Len(conllu_annotations) :
              /\ Len(conllu_annotations[k]) = Len(sentences[k])
              /\ \A i \in 1..Len(sentences[k]) :
                    SameButDeps(conllu_annotations[k][i], sentences[k][i])
        /\ sent >= 1 =>
              \A original \in {sentences[sent]} :
                  /\ Len(annotated_sentence) = Len(original)
                  /\ \A i \in 1..Len(original) :
                        /\ SameButDeps(annotated_sentence[i], original[i])
                        /\ annotated_sentence[i].deps # original[i].deps
                              => /\ pc \in {"next", "done"}
                                 /\ HasKey(pruned_tree, annotated_sentence[i].id)

\* One token of a repaired sentence got the root edge and another kept its deps.
C8_Witness ==
    /\ Repaired
    /\ \E i, j \in 1..Len(annotated_sentence) :
          /\ GotRootEdge(i)
          /\ annotated_sentence[j].deps = Original[j].deps
          /\ annotated_sentence[j].id \in Range(unreachable_nodes)

\* C9: the outcome of a sentence, its repaired tokens or its error, is the
\* outcome of processing that sentence with nothing processed before it.
C9_SentenceIndependence ==
    /\ \A k \in 1..Len(conllu_annotations) :
          ProcessSentence(Sentences[k], Unbound) = [err |-> "", sentence |-> conllu_annotations[k]]
    /\ pc = "error" => ProcessSentence(Original, Unbound).err = error

\* C10: when the number of ids differs from the number of retained head-set
\* entries, the assertion fails before the head-map is built; no token of the
\* sentence is changed, and the run takes no further step.
C10_StructuralMismatch ==
    [][ /\ (pc = "assert" /\ Len(ids) # Len(enhanced_heads))
            => /\ pc' = "error"
               /\ error' = "AssertionError"
               /\ UNCHANGED <<ids_to_heads, annotated_sentence, conllu_annotations,
                              out_file, sent>>
               /\ annotated_sentence = Original
        /\ pc = "error" => UNCHANGED vars ]_vars

\* The assertion failed on a sentence that is not the last of the file, after
\* an earlier sentence was repaired.
C10_Witness ==
    /\ error = "AssertionError"
    /\ Len(ids) # Len(enhanced_heads)
    /\ 1 < sent
    /\ sent < Len(Sentences)

NKeys == Len(ids_to_heads)

\* C11 as stated: the while loop makes at most N sweeps for a head-map with
\* N keys.
C11_AtMostNSweeps ==
    pc = "sweep" => sweeps <= NKeys

\* C11, amended: the while loop makes at most max(N, 1) sweeps; the sweep that
\* finds nothing to add is made also for a head-map without keys.
C11_BoundedSweeps ==
    pc = "sweep" => sweeps <= (IF NKeys = 0 THEN 1 ELSE NKeys)

\* The loop stopped after as many sweeps as the head-map has keys, one of which
\* added a token.
C11_Witness ==
    /\ Stable
    /\ sweeps = NKeys
    /\ sweeps >= 2

\* The list the code's own iteration order gives for the head-map, entered
\* with root_index as it stands.
InCodeOrder ==
    LET pairs == Pairs(ids_to_heads)
        found == FindRoot(pairs, root_index, <<>>)
    IN  SweepLoop(ids_to_heads,
                  FindRootChildren(pairs, found.root_index, found.nodes), TRUE)

\* C12: whatever the iteration order of the two passes and of every sweep, the
\* final ReachableSet is the set the code's own order gives.
C12_OrderIndependence ==
    Stable => ReachableSet = Range(InCodeOrder)

\* Another order left another root in root_index and another list, after a
\* sweep that added a token.
C12_Witness ==
    /\ Stable
    /\ sweeps >= 2
    /\ root_index # FindRoot(Pairs(ids_to_heads), Unbound, <<>>).root_index
    /\ nodes_reachable_from_root # InCodeOrder

\* C13: when the final ReachableSet holds every key of the head-map,
\* unreachable_nodes, unreachable_head_fragments and pruned_tree are empty and
\* no deps field of the sentence is modified.
C13_FullyConnectedUnchanged ==
    (Repaired /\ \A i \in 1..Len(ids_to_heads) : ids_to_heads[i].k \in ReachableSet)
        => /\ unreachable_nodes = <<>>
           /\ unreachable_head_fragments = <<>>
           /\ pruned_tree = <<>>
           /\ annotated_sentence = Original

\* C14: the only exceptions a run can end with are the AssertionError of the
\* structural check and the ValueError of the fragment construction.
C14_ClosedErrorTaxonomy ==
    error \in {"", "AssertionError", "ValueError"}

\* C15: the list clean_ids returns holds no id with a hyphen, so every key of
\* the head-map is the id of a token that is not a multi-word token.
C15_NoMultiwordIds ==
    /\ \A i \in 1..Len(ids) : ~HasHyphen(ids[i])
    /\ \A i \in 1..Len(ids_to_heads) : ~HasHyphen(ids_to_heads[i].k)

\* C16: in a sentence that passed the structural check no list of heads in the
\* head-map holds the placeholder "_".
C16_NoPlaceholderHeads ==
    \A i \in 1..Len(ids_to_heads) :
        \A j \in 1..Len(ids_to_heads[i].v) : ids_to_heads[i].v[j] # "_"

IsPrefix(a, b) == Len(a) <= Len(b) /\ SubSeq(b, 1, Len(a)) = a

\* C19: the second pass keeps what the first pass appended and a sweep keeps
\* what the list held; a sweep clears keep_searching_for_dependents exactly when
\* it added no member; once the flag is cleared no sweep runs and the list stays
\* as it is for the rest of the sentence.
C19_MonotoneStable ==
    [][ /\ (pc = "find_root" /\ pc' = "sweep")
            => IsPrefix(FindRoot(Pairs(ids_to_heads), root_index, <<>>).nodes,
                        nodes_reachable_from_root')
        /\ (pc = "sweep" /\ keep_searching_for_dependents)
            => /\ IsPrefix(nodes_reachable_from_root, nodes_reachable_from_root')
               /\ ~keep_searching_for_dependents'
                      <=> Range(nodes_reachable_from_root')
                              = Range(nodes_reachable_from_root)
        /\ (pc \in {"sweep", "collapse", "reattach"} /\ ~keep_searching_for_dependents)
            => /\ nodes_reachable_from_root' = nodes_reachable_from_root
               /\ ~keep_searching_for_dependents'
               /\ sweeps' = sweeps
      ]_vars

\* The loop stopped after a sweep that added a token and the fragments were
\* built from the list it left.
C19_Witness ==
    /\ pc = "collapse"
    /\ sweeps >= 2
    /\ ~keep_searching_for_dependents

\* The keys of the head-map with a head "0", in the order of the first pass.
RootHeaded == SelectSeq(Pairs(ids_to_heads), LAMBDA e : e[2] = ROOT)

HeadedBy(h) ==
    {ids_to_heads[i].k : i \in {j \in 1..Len(ids_to_heads) : In(h, ids_to_heads[j].v)}}

\* C20: after the two passes nodes_reachable_from_root holds the tokens with a
\* head "0" and the tokens with a head root_index, and no other token;
\* root_index is the last token with a head "0" the first pass met.
C20_InitialReachableSet ==
    (pc = "sweep" /\ sweeps = 0) =>
        /\ ReachableSet = HeadedBy(ROOT) \cup HeadedBy(root_index)
        /\ RootHeaded # <<>> => root_index = RootHeaded[Len(RootHeaded)][1]

\* Two roots: the child of the first one is not in the list after the two
\* passes.
C20_Witness ==
    /\ pc = "sweep"
    /\ sweeps = 0
    /\ Len(RootHeaded) >= 2
    /\ HeadedBy(RootHeaded[1][1]) \ ReachableSet # {}

\* The lines of a file that are neither empty nor comments.
TokenLines(lines) == SelectSeq(lines, LAMBDA line : line # <<>> /\ ~IsComment(line))

CommentAt(i) == text[i] # <<>> /\ IsComment(text[i])

RECURSIVE Flatten(_)
Flatten(ss) == IF ss = <<>> THEN <<>> ELSE ss[1] \o Flatten(Tail(ss))

\* C17 as stated: every comment line of the input is in the output, unchanged
\* and at the same position.
C17_CommentPassThrough ==
    (pc = "done" /\ run = 1) =>
        \A i \in 1..Len(text) :
            CommentAt(i) => i <= Len(out_file) /\ out_file[i] = text[i]

\* C17, amended: parse_sentence drops the comment lines; the tokens are the
\* other lines that are not empty, in order; no key of the head-map and no line
\* of the output is a comment.
C17_CommentsDropped ==
    /\ LET tokens == Flatten(Sentences)
           lines == TokenLines(text)
       IN  /\ Len(tokens) = Len(lines)
           /\ \A i \in 1..Len(tokens) : tokens[i] = Zip(lines[i])
    /\ \A i \in 1..Len(ids_to_heads) : ~IsComment(<<ids_to_heads[i].k>>)
    /\ \A i \in 1..Len(out_file) : out_file[i] = <<>> \/ ~IsComment(out_file[i])

\* A file with a comment line between two token lines of a block was written
\* without it, a token with a root edge more.
C17_Witness ==
    /\ pc = "done"
    /\ run = 1
    /\ \E i \in 2..(Len(text) - 1) :
          CommentAt(i) /\ text[i - 1] # <<>> /\ text[i + 1] # <<>>
    /\ Len(out_file) = Len(text) - 1
    /\ \E k \in 1..Len(conllu_annotations) : conllu_annotations[k] # Sentences[k]

\* For every token line of a file, the number of empty lines before it.
RECURSIVE BlockNumbers(_, _)
BlockNumbers(lines, b) ==
    IF lines = <<>> THEN <<>>
    ELSE IF lines[1] = <<>> THEN BlockNumbers(Tail(lines), b + 1)
    ELSE IF IsComment(lines[1]) THEN BlockNumbers(Tail(lines), b)
    ELSE <<b>> \o BlockNumbers(Tail(lines), b)

\* C18: the output holds the token lines of the input in the order of the
\* input, in blocks as in the input, every line with its 10 fields in the order
\* of FIELDS; only the deps field may have grown.
C18_OutputOrder ==
    pc = "done" =>
        LET in == TokenLines(text)
            out == TokenLines(out_file)
            block_in == BlockNumbers(text, 0)
            block_out == BlockNumbers(out_file, 0)
        IN  /\ Len(out) = Len(in)
            /\ \A j \in 1..Len(in) :
                  /\ Len(out[j]) = Len(FIELDS)
                  /\ \A k \in 1..Len(FIELDS) :
                        IF FIELDS[k] = "deps" THEN IsPrefix(in[j][k], out[j][k])
                                              ELSE out[j][k] = in[j][k]
            /\ \A i, j \in 1..Len(in) :
                  /\ block_in[i] = block_in[j] <=> block_out[i] = block_out[j]
                  /\ block_in[i] < block_in[j] <=> block_out[i] < block_out[j]

\* Two sentences were written, one of them of several lines, one line with a
\* root edge more.
C18_Witness ==
    /\ pc = "done"
    /\ run = 1
    /\ Len(conllu_annotations) >= 2
    /\ \E k \in 1..Len(conllu_annotations) : Len(conllu_annotations[k]) >= 2
    /\ TokenLines(out_file) # TokenLines(text)

\* The head-map of the sentence at hand has been built.
HeadMapBuilt == pc \in {"find_root", "sweep", "collapse", "reattach"}

\* The head parts of the entries of a deps field, in order.
OwnHeads(token) == [e \in 1..Len(token.deps) |-> EntryHead(token.deps[e])]

\* C21: in a sentence that passed the structural check, the list stored under
\* a key of the head-map is the sequence of the head parts of the deps field of
\* the token with that id.
C21_AlignedExtraction ==
    HeadMapBuilt =>
        \A original \in {Original} :
            \A i \in 1..Len(ids_to_heads) :
                /\ \E t \in 1..Len(original) : original[t].id = ids_to_heads[i].k
                /\ \A t \in 1..Len(original) :
                      original[t].id = ids_to_heads[i].k
                          => ids_to_heads[i].v = OwnHeads(original[t])

\* The fragments of the sentence at hand have been built.
FragmentsBuilt == pc \in {"collapse", "reattach"}

\* C22: every key of unreachable_head_fragments is a head that is neither "0"
\* nor in the final ReachableSet, and no child of a fragment is in the final
\* ReachableSet.
C22_OnlyUnreachableMaterial ==
    FragmentsBuilt =>
        \A i \in 1..Len(unreachable_head_fragments) :
            /\ unreachable_head_fragments[i].k \notin ReachableSet \cup {ROOT}
            /\ \A j \in 1..Len(unreachable_head_fragments[i].v) :
                  unreachable_head_fragments[i].v[j] \notin ReachableSet

\* C23: after the pruning loop a key of unreachable_head_fragments is missing
\* from heads_of_fragments exactly when it is a child in some fragment, and
\* pruned_tree maps every key that is left to its children list.
C23_CollapseRule ==
    pc = "reattach" =>
        /\ \A i \in 1..Len(unreachable_head_fragments) :
              ~In(unreachable_head_fragments[i].k, heads_of_fragments)
                  <=> Parents(unreachable_head_fragments[i].k,
                              unreachable_head_fragments) # {}
        /\ Range(Keys(pruned_tree)) = Range(heads_of_fragments)
        /\ \A i \in 1..Len(pruned_tree) :
              pruned_tree[i].v = Get(unreachable_head_fragments, pruned_tree[i].k)

\* C24: the second loop of step 4 finds every head of every unreachable node
\* among the keys of unreachable_head_fragments; no run ends with ValueError.
C24_NoOrphanFragment ==
    /\ error # "ValueError"
    /\ FragmentsBuilt =>
          \A i \in 1..Len(unreachable_nodes) :
              \A h \in Range(Get(ids_to_heads, unreachable_nodes[i])) :
                  /\ HasKey(unreachable_head_fragments, h)
                  /\ In(unreachable_nodes[i], Get(unreachable_head_fragments, h))

\* Two unreachable nodes were looked up, one of them under two heads.
C24_Witness ==
    /\ pc = "collapse"
    /\ Cardinality(Range(unreachable_nodes)) >= 2
    /\ \E i \in 1..Len(unreachable_nodes) :
          Cardinality(Range(Get(ids_to_heads, unreachable_nodes[i]))) = 2
    /\ Len(unreachable_head_fragments) >= 3

\* C25: for fragments that are not empty the pruning loop ends without an
\* index error and leaves a key in heads_of_fragments.
C25_CollapseSafe ==
    [][ (pc = "collapse" /\ unreachable_head_fragments # <<>>)
            => /\ pc' = "reattach"
               /\ heads_of_fragments' # <<>> ]_vars

\* Occurrences of x in a list.
Times(x, list) == Cardinality({j \in 1..Len(list) : list[j] = x})

\* C26: after the reattachment the deps field of a token whose id is a key of
\* pruned_tree is its previous deps field followed by one "0:root" entry, and
\* the deps field of any other token is its previous deps field.
C26_NoDuplicateReattachment ==
    Repaired =>
        \A original \in {Original} :
            \A i \in 1..Len(annotated_sentence) :
                annotated_sentence[i].deps =
                    IF HasKey(pruned_tree, annotated_sentence[i].id)
                    THEN Append(original[i].deps, root_edge)
                    ELSE original[i].deps

\* A token that is twice in unreachable_nodes and twice a child of its own
\* fragment got the edge.
C26_Witness ==
    /\ Repaired
    /\ \E i \in 1..Len(annotated_sentence) :
          /\ HasKey(pruned_tree, annotated_sentence[i].id)
          /\ Times(annotated_sentence[i].id, unreachable_nodes) >= 2
          /\ Times(annotated_sentence[i].id,
                   Get(pruned_tree, annotated_sentence[i].id)) >= 2
          /\ Times(root_edge, annotated_sentence[i].deps) = 1

\* The list without its repeated entries, first occurrences kept.
RECURSIVE Dedup(_)
Dedup(list) ==
    IF list = <<>> THEN <<>>
    ELSE LET rest == Dedup(SubSeq(list, 1, Len(list) - 1))
         IN  IF In(list[Len(list)], rest) THEN rest ELSE Append(rest, list[Len(list)])

\* Steps 4 and 5 on unreachable_nodes without its repeated entries.
DedupFragments == BuildFragments(Dedup(unreachable_nodes), ids_to_heads)

DedupPruned == PruneHeads(DedupFragments.val)

\* C27: clustering, collapse and reattachment give the same outcome on
\* unreachable_nodes as on the list without its repeated entries: the same
\* surviving keys, the same tokens with the root edge, or the same failure.
C27_DuplicatesHarmless ==
    /\ pc = "collapse" =>
          /\ DedupFragments.err = ""
          /\ Keys(DedupFragments.val) = Keys(unreachable_head_fragments)
          /\ DedupPruned.err = PruneHeads(unreachable_head_fragments).err
    /\ pc = "reattach" =>
          /\ DedupPruned = [err |-> "", val |-> heads_of_fragments]
          /\ Reattach(annotated_sentence,
                      PopulatePruned(DedupPruned.val, DedupFragments.val))
                 = Reattach(annotated_sentence, pruned_tree)

\* A token that is twice in unreachable_nodes is the head of a surviving
\* fragment and a token of the sentence.
C27_Witness ==
    /\ pc = "reattach"
    /\ Dedup(unreachable_nodes) # unreachable_nodes
    /\ \E i \in 1..Len(annotated_sentence) :
          /\ HasKey(pruned_tree, annotated_sentence[i].id)
          /\ Times(annotated_sentence[i].id, unreachable_nodes) >= 2

\* C28: nothing is written before _read has returned; a run that fails leaves
\* the output without any sentence, also those repaired before the failure.
C28_WriteAfterAll ==
    /\ pc # "done" => out_file = <<>>
    /\ pc = "done" => /\ error = ""
                      /\ sent = Len(Sentences)
                      /\ Len(conllu_annotations) = sent

\* A sentence failed after a sentence got a root edge, and nothing is written.
C28_Witness ==
    /\ pc = "error"
    /\ Len(conllu_annotations) >= 1
    /\ \E k \in 1..Len(conllu_annotations) : conllu_annotations[k] # Sentences[k]
    /\ out_file = <<>>

\* C29: every key of the head-map that is not in the final ReachableSet is in
\* unreachable_nodes and is a child in a fragment of
\* unreachable_head_fragments.
C29_UnreachableComplete ==
    FragmentsBuilt =>
        \A i \in 1..Len(ids_to_heads) :
            ids_to_heads[i].k \notin ReachableSet
                => /\ In(ids_to_heads[i].k, unreachable_nodes)
                   /\ Parents(ids_to_heads[i].k, unreachable_head_fragments) # {}

\* Two keys are not reachable, one of them only has a head that names no
\* token.
C29_Witness ==
    /\ pc = "collapse"
    /\ Cardinality(Range(Keys(ids_to_heads)) \ ReachableSet) >= 2
    /\ \E i \in 1..Len(ids_to_heads) :
          /\ ids_to_heads[i].k \notin ReachableSet
          /\ \A h \in Range(ids_to_heads[i].v) : ~HasKey(ids_to_heads, h)

\* The final list when root is used as root_index in the second pass.
WithRoot(root) ==
    LET pairs == Pairs(ids_to_heads)
    IN  SweepLoop(ids_to_heads,
                  FindRootChildren(pairs, root, FindRoot(pairs, root, <<>>).nodes),
                  TRUE)

\* The final list when the second pass is made for every root in turn.
RECURSIVE WithRoots(_, _)
WithRoots(roots, nodes) ==
    IF roots = <<>> THEN SweepLoop(ids_to_heads, nodes, TRUE)
    ELSE WithRoots(Tail(roots),
                   FindRootChildren(Pairs(ids_to_heads), roots[1][1], nodes))

\* C30: in a sentence with a token headed by "0" the final ReachableSet is the
\* one the second pass gives with any of the tokens headed by "0" as
\* root_index, and with all of them.
C30_RootChoice ==
    (Stable /\ RootHeaded # <<>>) =>
        /\ \A r \in 1..Len(RootHeaded) : Range(WithRoot(RootHeaded[r][1])) = ReachableSet
        /\ Range(WithRoots(RootHeaded,
                           FindRoot(Pairs(ids_to_heads), Unbound, <<>>).nodes))
               = ReachableSet

\* Two roots: a child of the first one, not of the last one, was added by a
\* sweep.
C30_Witness ==
    /\ Stable
    /\ Len(RootHeaded) >= 2
    /\ sweeps >= 2
    /\ (HeadedBy(RootHeaded[1][1]) \ HeadedBy(root_index)) \ HeadedBy(ROOT) # {}
====
